---------------------------- MODULE Spec2Model ----------------------------
(* The in-memory BM25 keyword index of src/services/vectorDbService.js     *)
(* (module state storedDocs, dfMap, avgDocLength; operations               *)
(* initializeVectorStore, addDocuments, searchDocuments) and the "vectordb" *)
(* tool of src/tools/vectorDbTool.js that calls searchDocuments with the   *)
(* default k.  The chat component App (query, chatHistory, loading, its     *)
(* submit handler handleQuery and the streamAgent request it awaits) is    *)
(* modelled next to it, in a specification of its own.                     *)
(*                                                                         *)
(* A string is a sequence of one-character strings.  A documents entry is  *)
(* a record [isString, chars]; isString = FALSE is a null / non-string     *)
(* entry, on which tokenize throws a TypeError (text.toLowerCase).         *)
(*                                                                         *)
(* Scores are IEEE doubles in the program.  Here a score is an integer in  *)
(* units of 1/100000: Math.log comes from a table of ln(n) in those units, *)
(* the rational factor of each term is applied exactly and the product is  *)
(* rounded down.  k1 = 1.5 and b = 0.75 are kept as the fractions          *)
(* K1Num/K1Den and BNum/BDen; avgDocLength is kept as the fraction         *)
(* num/den.                                                                *)
EXTENDS Integers, Sequences, FiniteSets, TLC

VARIABLES
    storedDocs,     \* let storedDocs = []   : sequence of records
    dfMap,          \* let dfMap = new Map() : function token -> count
    avgDocLength,   \* let avgDocLength = 0  : [num, den]
    lastOp,         \* the call that ran last
    lastDocs,       \* its documents argument (initialize, add), else <<>>
    lastQuery,      \* its query argument (search, tool), else <<>>
    lastK,          \* its k argument: <<>> when omitted, <<k>> otherwise
    outcome,        \* "ok" | "false" (initialize returned false) | "threw"
    result,         \* the sequence searchDocuments returned
    picked,         \* for each entry of result, the position in storedDocs
                    \* of the record s.doc it was made from
    toolOut,        \* the string the vectordb tool returned
    inputQuery,     \* [query, setQuery] = useState(''): the text of the input
                    \* box (query names the argument of the search above)
    chatHistory,    \* useState([])    : sequence of <<role, content, ...>>
    loading,        \* useState(false)
    pending,        \* the streamAgent calls awaited and not yet settled,
                    \* each with its argument [input, chat_history]
    uiEvent,        \* the event the component handled last
    started         \* whether that event called streamAgent

indexVars == <<storedDocs, dfMap, avgDocLength, lastOp, lastDocs, lastQuery,
               lastK, outcome, result, picked, toolOut>>

appVars == <<inputQuery, chatHistory, loading, pending, uiEvent, started>>

vars == <<storedDocs, dfMap, avgDocLength, lastOp, lastDocs, lastQuery,
          lastK, outcome, result, picked, toolOut,
          inputQuery, chatHistory, loading, pending, uiEvent, started>>

-----------------------------------------------------------------------------
(* Bounds of the model *)

MaxDocs == 3

MaxBatch == 2

MaxK == 2

MaxDeepDocs == 6

MaxTokLen == 3

\* the number of questions a conversation may hold
MaxTurns == 2

-----------------------------------------------------------------------------
(* Inputs *)

Str(cs) == [isString |-> TRUE, chars |-> cs]

NullEntry == [isString |-> FALSE, chars |-> <<>>]

\* "a-A b": tokens a, a, b
T_aAb == <<"a", "-", "A", " ", "b">>

\* "B c,c": tokens b, c, c
T_Bcc == <<"B", " ", "c", ",", "c">>

\* "!": no token
T_bang == <<"!">>

Texts == {T_aAb, T_Bcc, T_bang}

Entries == {Str(t) : t \in Texts} \cup {NullEntry}

DeepEntries == {Str(T_aAb), Str(T_Bcc)}

Q_Aa == <<"A", " ", "a">>

Q_bc == <<"b", ",", "c">>

Q_b == <<"B">>

Q_none == <<"?">>

Q_z == <<"z">>

Queries == {Q_Aa, Q_bc, Q_b, Q_none, Q_z}

DeepQueries == {Q_b, Q_bc, Q_none}

\* the characters of the tokenizer's inputs: a lower-case letter, an
\* upper-case letter, a digit, a punctuation mark and three characters
\* outside ASCII
TokAlphabet == {"a", "B", "7", "-", "E_ACUTE", "KELVIN", "I_DOT"}

TokStrings == UNION {[1..m -> TokAlphabet] : m \in 0..MaxTokLen}

Batches(E, n) == UNION {[1..m -> E] : m \in 0..n}

-----------------------------------------------------------------------------
(* tokenize *)

UpperChars == <<"A","B","C","D","E","F","G","H","I","J","K","L","M",
                "N","O","P","Q","R","S","T","U","V","W","X","Y","Z">>

LowerChars == <<"a","b","c","d","e","f","g","h","i","j","k","l","m",
                "n","o","p","q","r","s","t","u","v","w","x","y","z">>

DigitChars == <<"0","1","2","3","4","5","6","7","8","9">>

Range(s) == {s[i] : i \in DOMAIN s}

\* String.prototype.toLowerCase on the letters A-Z; every other character
\* of the inputs used here is its own lower case
LowerOf == [i \in DOMAIN UpperChars |-> LowerChars[i]]

UpperSet == Range(UpperChars)

UpperIndex == [c \in UpperSet |-> CHOOSE i \in DOMAIN UpperChars : UpperChars[i] = c]

toLowerCaseChar(c) == IF c \in UpperSet THEN LowerOf[UpperIndex[c]] ELSE c

\* Characters outside ASCII are written by name.  Unicode lower-casing, which
\* toLowerCase applies: E_ACUTE (U+00C9) gives e_acute (U+00E9), KELVIN
\* (U+212A) gives the ASCII letter k, I_DOT (U+0130) gives the ASCII letter i
\* followed by COMBINING_DOT (U+0307).
SpecialLower ==
    [c \in {"E_ACUTE", "KELVIN", "I_DOT"} |->
        IF c = "E_ACUTE" THEN <<"e_acute">>
        ELSE IF c = "KELVIN" THEN <<"k">>
        ELSE <<"i", "COMBINING_DOT">>]

\* the lower case of one character, a string of one or two characters
LowerSeqOf(c) ==
    IF c \in DOMAIN SpecialLower THEN SpecialLower[c] ELSE <<toLowerCaseChar(c)>>

RECURSIVE toLowerCase(_)
toLowerCase(s) ==
    IF s = <<>> THEN <<>> ELSE LowerSeqOf(Head(s)) \o toLowerCase(Tail(s))

\* the character class [a-z0-9]
WordChars == Range(LowerChars) \cup Range(DigitChars)

IsWordChar(c) == c \in WordChars

\* String.prototype.split(/[^a-z0-9]+/g): the pieces between the maximal runs
\* of separator characters, empty pieces included.
RECURSIVE SplitFrom(_, _, _, _)
SplitFrom(s, i, cur, inSep) ==
    IF i > Len(s) THEN <<cur>>
    ELSE IF IsWordChar(s[i]) THEN SplitFrom(s, i + 1, Append(cur, s[i]), FALSE)
    ELSE IF inSep THEN SplitFrom(s, i + 1, cur, TRUE)
    ELSE <<cur>> \o SplitFrom(s, i + 1, <<>>, TRUE)

split(s) == SplitFrom(s, 1, <<>>, FALSE)

\* a tokenizer that keeps the empty pieces of split
filterBoolean_keepsAll(pieces) == pieces

\* .filter(Boolean): the empty string is falsy
filterBoolean(pieces) == SelectSeq(pieces, LAMBDA p : p # <<>>)

tokenize(text) == filterBoolean(split(toLowerCase(text)))

-----------------------------------------------------------------------------
(* Document records *)

Count(seq, x) == Cardinality({i \in DOMAIN seq : seq[i] = x})

\* a map that records presence only: termFreq.set(t, 1)
TermFreq_setsOne(tokens) == [t \in Range(tokens) |-> 1]

\* for (const t of tokens) termFreq.set(t, (termFreq.get(t) || 0) + 1)
TermFreq(tokens) == [t \in Range(tokens) |-> Count(tokens, t)]

\* { pageContent: text, tokens, termFreq }
BuildRecord(text) ==
    LET tokens == tokenize(text)
    IN  [pageContent |-> text, tokens |-> tokens, termFreq |-> TermFreq(tokens)]

\* the record of every input text, built once
RecordTable == [t \in Texts |-> BuildRecord(t)]

MakeRecord(text) ==
    IF text \in DOMAIN RecordTable THEN RecordTable[text] ELSE BuildRecord(text)

\* the first malformed entry of a batch, 0 when there is none
FirstBad(documents) ==
    IF \E i \in DOMAIN documents : ~documents[i].isString
    THEN CHOOSE i \in DOMAIN documents :
            /\ ~documents[i].isString
            /\ \A j \in 1..(i - 1) : documents[j].isString
    ELSE 0

-----------------------------------------------------------------------------
(* rebuildIndex *)

RECURSIVE SumLengths(_)
SumLengths(docs) ==
    IF docs = <<>> THEN 0
    ELSE Len(docs[1].tokens) + SumLengths(Tail(docs))

AllTokens(docs) == UNION {Range(docs[i].tokens) : i \in DOMAIN docs}

RebuiltDf(docs) ==
    [t \in AllTokens(docs) |->
        Cardinality({i \in DOMAIN docs : t \in Range(docs[i].tokens)})]

RebuiltAvg(docs) ==
    IF Len(docs) > 0 THEN [num |-> SumLengths(docs), den |-> Len(docs)]
    ELSE [num |-> 0, den |-> 1]

-----------------------------------------------------------------------------
(* The ranking function of searchDocuments *)

K1Num == 3

K1Den == 2

BNum == 3

BDen == 4

DefaultK == 5

\* Math.log(n) for n in 1..24, in units of 1/100000
LnTable == <<0, 69315, 109861, 138629, 160944, 179176, 194591, 207944,
             219722, 230259, 239790, 248491, 256495, 263906, 270805, 277259,
             283321, 289037, 294444, 299573, 304452, 309104, 313549, 317805>>

\* dfMap.get(term) || 0
DfGet(term) == IF term \in DOMAIN dfMap THEN dfMap[term] ELSE 0

\* the fraction turned over: Math.log(1 + (df + 0.5) / (N - df + 0.5))
idf_inverted(term) ==
    LET N  == Len(storedDocs)
        df == DfGet(term)
    IN  LnTable[2 * N + 2] - LnTable[2 * (N - df) + 1]

\* the inverse document frequency without the 1 inside the logarithm:
\* Math.log((N - df + 0.5) / (df + 0.5))
idf_withoutOne(term) ==
    LET N  == Len(storedDocs)
        df == DfGet(term)
    IN  LnTable[2 * (N - df) + 1] - LnTable[2 * df + 1]

\* Math.log(1 + (N - df + 0.5) / (df + 0.5)) = ln((2N + 2) / (2df + 1))
idf(term) ==
    LET N  == Len(storedDocs)
        df == DfGet(term)
    IN  LnTable[2 * N + 2] - LnTable[2 * df + 1]

\* doc.termFreq.get(qt) || 0
TfGet(doc, qt) == IF qt \in DOMAIN doc.termFreq THEN doc.termFreq[qt] ELSE 0

\* doc.tokens.length || 1
DocLen(doc) == IF Len(doc.tokens) = 0 THEN 1 ELSE Len(doc.tokens)

\* the average used as it is, 0 included
AvgOr1_noFallback == avgDocLength

\* avgDocLength || 1
AvgOr1 == IF avgDocLength.num = 0 THEN [num |-> 1, den |-> 1] ELSE avgDocLength

\* denom = tf + k1 * (1 - b + (b * dl) / avg), over the common denominator
\* K1Den * BDen * avg.num
DenomScaled(tf, dl) ==
    tf * K1Den * BDen * AvgOr1.num
      + K1Num * ((BDen - BNum) * AvgOr1.num + BNum * dl * AvgOr1.den)

\* tf * (k1 + 1), over the same common denominator
NumerScaled(tf) == tf * (K1Num + K1Den) * BDen * AvgOr1.num

\* one pass of the loop body: what `score +=` adds for query token qt
TermScore(doc, qt) ==
    LET tf == TfGet(doc, qt)
    IN  IF tf = 0 THEN 0
        ELSE (idf(qt) * NumerScaled(tf)) \div DenomScaled(tf, DocLen(doc))

\* the first occurrence of every element, in order
RECURSIVE Dedup(_)
Dedup(seq) ==
    IF seq = <<>> THEN <<>>
    ELSE LET front == Dedup(SubSeq(seq, 1, Len(seq) - 1))
             x     == seq[Len(seq)]
         IN  IF x \in Range(front) THEN front ELSE Append(front, x)

RECURSIVE ScoreDocSum(_, _)
ScoreDocSum(doc, queryTokens) ==
    IF queryTokens = <<>> THEN 0
    ELSE TermScore(doc, Head(queryTokens)) + ScoreDocSum(doc, Tail(queryTokens))

\* a score in which a repeated query token counts once
ScoreDoc_distinctTokens(doc, queryTokens) == ScoreDocSum(doc, Dedup(queryTokens))

\* let score = 0; for (const qt of queryTokens) { ... score += ... }
ScoreDoc(doc, queryTokens) == ScoreDocSum(doc, queryTokens)

\* storedDocs.map((doc) => ({ doc, score })); doc is held by its position
Scored(queryTokens) ==
    [i \in 1..Len(storedDocs) |->
        [doc |-> i, score |-> ScoreDoc(storedDocs[i], queryTokens)]]

\* an insertion that puts x before the entries of equal score
RECURSIVE InsertDesc_beforeEqual(_, _)
InsertDesc_beforeEqual(x, sorted) ==
    IF sorted = <<>> THEN <<x>>
    ELSE IF Head(sorted).score > x.score
         THEN <<Head(sorted)>> \o InsertDesc_beforeEqual(x, Tail(sorted))
         ELSE <<x>> \o sorted

\* Array.prototype.sort with (a, b) => b.score - a.score: a stable sort
\* (ECMAScript 2019), descending by score.  InsertDesc puts x after every
\* entry whose score is >= x.score.
RECURSIVE InsertDesc(_, _)
InsertDesc(x, sorted) ==
    IF sorted = <<>> THEN <<x>>
    ELSE IF Head(sorted).score >= x.score
         THEN <<Head(sorted)>> \o InsertDesc(x, Tail(sorted))
         ELSE <<x>> \o sorted

RECURSIVE SortFrom(_)
SortFrom(s) ==
    IF s = <<>> THEN <<>>
    ELSE InsertDesc(s[Len(s)], SortFrom(SubSeq(s, 1, Len(s) - 1)))

\* a search that leaves the scored records in insertion order
SortDesc_unsorted(s) == SubSeq(s, 1, Len(s))

SortDesc(s) == SortFrom(s)

\* a filter that lets the records of score 0 through
FilterPositive_keepsZero(s) == SelectSeq(s, LAMBDA e : e.score >= 0)

\* .filter((s) => s.score > 0)
FilterPositive(s) == SelectSeq(s, LAMBDA e : e.score > 0)

\* a slice that starts one entry late: .slice(1, k + 1)
Slice_fromSecond(s, k) == SubSeq(s, 2, IF k + 1 < Len(s) THEN k + 1 ELSE Len(s))

\* .slice(0, k)
Slice(s, k) == SubSeq(s, 1, IF k < Len(s) THEN k ELSE Len(s))

\* a default of twice DefaultK
KOf_largerDefault(kArg) == IF kArg = <<>> THEN 2 * DefaultK ELSE kArg[1]

\* the default parameter k = 5
KOf(kArg) == IF kArg = <<>> THEN DefaultK ELSE kArg[1]

\* scored.sort(...); return scored.filter(...).slice(0, k)
SelectTop(queryTokens, kArg) ==
    Slice(FilterPositive(SortDesc(Scored(queryTokens))), KOf(kArg))

\* what a search would return if an empty query listed the first k records
SearchScored_emptyQueryListsAll(query, kArg) ==
    IF Len(storedDocs) = 0 THEN <<>>
    ELSE LET queryTokens == tokenize(query)
         IN  IF Len(queryTokens) = 0
             THEN Slice(SortDesc(Scored(queryTokens)), KOf(kArg))
             ELSE SelectTop(queryTokens, kArg)

\* the entries searchDocuments selects, before the final .map
SearchScored(query, kArg) ==
    IF Len(storedDocs) = 0 THEN <<>>
    ELSE LET queryTokens == tokenize(query)
         IN  IF Len(queryTokens) = 0 THEN <<>>
             ELSE SelectTop(queryTokens, kArg)

\* .map((s) => ({ pageContent: s.doc.pageContent, score: s.score }))
MapOut(sel) ==
    [i \in DOMAIN sel |->
        [pageContent |-> storedDocs[sel[i].doc].pageContent,
         score |-> sel[i].score]]

\* results.map(doc => doc.pageContent).join("\n\n")
RECURSIVE Join(_)
Join(res) ==
    IF res = <<>> THEN <<>>
    ELSE IF Len(res) = 1 THEN res[1].pageContent
    ELSE res[1].pageContent \o <<"\n", "\n">> \o Join(Tail(res))

-----------------------------------------------------------------------------
(* Operations *)

\* the state of App at its first render
AppInit ==
    /\ inputQuery = <<>>
    /\ chatHistory = <<>>
    /\ loading = FALSE
    /\ pending = <<>>
    /\ uiEvent = "none"
    /\ started = FALSE

Init ==
    /\ AppInit
    /\ storedDocs = <<>>
    /\ dfMap = <<>>
    /\ avgDocLength = [num |-> 0, den |-> 1]
    /\ lastOp = "none"
    /\ lastDocs = <<>>
    /\ lastQuery = <<>>
    /\ lastK = <<>>
    /\ outcome = "ok"
    /\ result = <<>>
    /\ picked = <<>>
    /\ toolOut = <<>>

\* lastQuery, lastK, result, picked and toolOut describe the latest search
\* only: a call that is no search clears them
NoReturn ==
    /\ lastQuery' = <<>>
    /\ lastK' = <<>>
    /\ result' = <<>>
    /\ picked' = <<>>
    /\ toolOut' = <<>>

\* an initialize that empties the store before it builds the records
initializeVectorStore_clearsFirst(documents) ==
    /\ lastOp' = "initialize"
    /\ lastDocs' = documents
    /\ IF FirstBad(documents) # 0
       THEN /\ outcome' = "false"
            /\ storedDocs' = <<>>
            /\ UNCHANGED <<dfMap, avgDocLength>>
       ELSE LET docs == [i \in DOMAIN documents |-> MakeRecord(documents[i].chars)]
            IN  /\ storedDocs' = docs
                /\ dfMap' = RebuiltDf(docs)
                /\ avgDocLength' = RebuiltAvg(docs)
                /\ outcome' = "ok"
    /\ NoReturn

\* an initialize that keeps the records already stored
initializeVectorStore_appends(documents) ==
    /\ lastOp' = "initialize"
    /\ lastDocs' = documents
    /\ IF FirstBad(documents) # 0
       THEN /\ outcome' = "false"
            /\ UNCHANGED <<storedDocs, dfMap, avgDocLength>>
       ELSE LET docs == storedDocs \o
                           [i \in DOMAIN documents |-> MakeRecord(documents[i].chars)]
            IN  /\ storedDocs' = docs
                /\ dfMap' = RebuiltDf(docs)
                /\ avgDocLength' = RebuiltAvg(docs)
                /\ outcome' = "ok"
    /\ NoReturn

\* documents.map(...) builds the whole array before storedDocs is assigned;
\* a throw inside it is caught and the function returns false.
initializeVectorStore(documents) ==
    /\ lastOp' = "initialize"
    /\ lastDocs' = documents
    /\ IF FirstBad(documents) # 0
       THEN /\ outcome' = "false"
            /\ UNCHANGED <<storedDocs, dfMap, avgDocLength>>
       ELSE LET docs == [i \in DOMAIN documents |-> MakeRecord(documents[i].chars)]
            IN  /\ storedDocs' = docs
                /\ dfMap' = RebuiltDf(docs)
                /\ avgDocLength' = RebuiltAvg(docs)
                /\ outcome' = "ok"
    /\ NoReturn

\* a loop that skips the texts without a token
Pushed_skipsEmpty(documents) ==
    LET bad == FirstBad(documents)
        n   == IF bad = 0 THEN Len(documents) ELSE bad - 1
        all == [i \in 1..n |-> MakeRecord(documents[i].chars)]
    IN  SelectSeq(all, LAMBDA r : r.tokens # <<>>)

\* the records the for-loop of addDocuments has pushed when it ends: all of
\* the batch, or the entries before the first one on which tokenize throws
Pushed(documents) ==
    LET bad == FirstBad(documents)
        n   == IF bad = 0 THEN Len(documents) ELSE bad - 1
    IN  [i \in 1..n |-> MakeRecord(documents[i].chars)]

\* an append that returns without rebuildIndex()
addDocuments_noRebuild(documents) ==
    /\ lastOp' = "add"
    /\ lastDocs' = documents
    /\ storedDocs' = storedDocs \o Pushed(documents)
    /\ outcome' = IF FirstBad(documents) # 0 THEN "threw" ELSE "ok"
    /\ UNCHANGED <<dfMap, avgDocLength>>
    /\ NoReturn

\* an append that replaces the store by the new records
addDocuments_replaces(documents) ==
    /\ lastOp' = "add"
    /\ lastDocs' = documents
    /\ storedDocs' = Pushed(documents)
    /\ IF FirstBad(documents) # 0
       THEN /\ outcome' = "threw"
            /\ UNCHANGED <<dfMap, avgDocLength>>
       ELSE /\ outcome' = "ok"
            /\ dfMap' = RebuiltDf(storedDocs')
            /\ avgDocLength' = RebuiltAvg(storedDocs')
    /\ NoReturn

\* no try/catch: a throw leaves the loop and skips rebuildIndex()
addDocuments(documents) ==
    /\ lastOp' = "add"
    /\ lastDocs' = documents
    /\ storedDocs' = storedDocs \o Pushed(documents)
    /\ IF FirstBad(documents) # 0
       THEN /\ outcome' = "threw"
            /\ UNCHANGED <<dfMap, avgDocLength>>
       ELSE /\ outcome' = "ok"
            /\ dfMap' = RebuiltDf(storedDocs')
            /\ avgDocLength' = RebuiltAvg(storedDocs')
    /\ NoReturn

\* a search that sorts storedDocs itself by score instead of a mapped copy
searchDocuments_sortsStore(query, kArg) ==
    LET sel    == SearchScored(query, kArg)
        sorted == SortDesc(Scored(tokenize(query)))
    IN  /\ lastOp' = "search"
        /\ lastQuery' = query
        /\ lastK' = kArg
        /\ outcome' = "ok"
        /\ result' = MapOut(sel)
        /\ picked' = [i \in DOMAIN sel |-> sel[i].doc]
        /\ lastDocs' = <<>>
        /\ toolOut' = <<>>
        /\ storedDocs' = [i \in DOMAIN sorted |-> storedDocs[sorted[i].doc]]
        /\ UNCHANGED <<dfMap, avgDocLength>>

searchDocuments(query, kArg) ==
    LET sel == SearchScored(query, kArg)
    IN  /\ lastOp' = "search"
        /\ lastQuery' = query
        /\ lastK' = kArg
        /\ outcome' = "ok"
        /\ result' = MapOut(sel)
        /\ picked' = [i \in DOMAIN sel |-> sel[i].doc]
        /\ lastDocs' = <<>>
        /\ toolOut' = <<>>
        /\ UNCHANGED <<storedDocs, dfMap, avgDocLength>>

\* func: async ({ query }) => searchDocuments(query) with k omitted
vectorDbTool(query) ==
    LET sel == SearchScored(query, <<>>)
    IN  /\ lastOp' = "tool"
        /\ lastQuery' = query
        /\ lastK' = <<>>
        /\ outcome' = "ok"
        /\ result' = MapOut(sel)
        /\ picked' = [i \in DOMAIN sel |-> sel[i].doc]
        /\ toolOut' = Join(MapOut(sel))
        /\ lastDocs' = <<>>
        /\ UNCHANGED <<storedDocs, dfMap, avgDocLength>>

KArgs == {<<k>> : k \in 1..MaxK}

Initialize ==
    /\ \E d \in Batches(Entries, MaxBatch) : initializeVectorStore(d)
    /\ UNCHANGED appVars

Add ==
    \E d \in Batches(Entries, MaxBatch) :
        /\ Len(storedDocs) + Len(d) <= MaxDocs
        /\ addDocuments(d)
        /\ UNCHANGED appVars

Search ==
    /\ \E q \in Queries, k \in KArgs : searchDocuments(q, k)
    /\ UNCHANGED appVars

Tool ==
    /\ \E q \in Queries : vectorDbTool(q)
    /\ UNCHANGED appVars

Next == Initialize \/ Add \/ Search \/ Tool

Spec == Init /\ [][Next]_vars

\* the same operations on a deeper store of fewer distinct texts, so that more
\* records than the default k score positively
DeepInitialize ==
    /\ \E d \in Batches(DeepEntries, MaxBatch) : initializeVectorStore(d)
    /\ UNCHANGED appVars

DeepAdd ==
    \E d \in Batches(DeepEntries, MaxBatch) :
        /\ Len(storedDocs) + Len(d) <= MaxDeepDocs
        /\ addDocuments(d)
        /\ UNCHANGED appVars

DeepSearch ==
    /\ \E q \in DeepQueries, k \in KArgs : searchDocuments(q, k)
    /\ UNCHANGED appVars

DeepTool ==
    /\ \E q \in DeepQueries : vectorDbTool(q)
    /\ UNCHANGED appVars

DeepNext == DeepInitialize \/ DeepAdd \/ DeepSearch \/ DeepTool

DeepSpec == Init /\ [][DeepNext]_vars

\* the tokenizer on every string of up to MaxTokLen characters of
\* TokAlphabet: each is stored by the first initialize of the empty store,
\* called with that one text
TokInitialize ==
    /\ storedDocs = <<>>
    /\ \E t \in TokStrings : initializeVectorStore(<<Str(t)>>)
    /\ UNCHANGED appVars

TokNext == TokInitialize

TokSpec == Init /\ [][TokNext]_vars

-----------------------------------------------------------------------------
(* The chat component App *)

\* The state of App is read by an event handler as the latest render left it,
\* and the state updates a handler makes are rendered before the next event
\* is handled.  One action is therefore one handler run up to its await, or
\* the continuation that runs when the awaited streamAgent call settles.
\* The first version of the component differs from the one modelled here
\* only in the placeholder ["ai", ""], which has no sources element.

\* the white space String.prototype.trim removes, of the characters typed here
WhiteSpace == {" ", "\t", "\n", "\r"}

RECURSIVE trimStart(_)
trimStart(s) ==
    IF s # <<>> /\ Head(s) \in WhiteSpace THEN trimStart(Tail(s)) ELSE s

RECURSIVE trimEnd(_)
trimEnd(s) ==
    IF s # <<>> /\ s[Len(s)] \in WhiteSpace
    THEN trimEnd(SubSeq(s, 1, Len(s) - 1))
    ELSE s

\* query.trim()
trim(s) == trimEnd(trimStart(s))

\* what the user may leave in the input box: nothing, white space only, a
\* word, a word inside white space
Typed == {<<>>, <<" ", "\n">>, <<"h", "i">>, <<" ", "y", "o", " ">>}

\* what the server may answer: { response, sources }
AgentReplies ==
    {[response |-> <<"o", "k">>, sources |-> <<>>],
     [response |-> <<"o", "k">>, sources |-> << <<"d", "o", "c">> >>]}

\* "Sorry, an error occurred while processing your request."
ErrorText ==
    <<"S", "o", "r", "r", "y", ",", " ", "a", "n", " ", "e", "r", "r", "o",
      "r", " ", "o", "c", "c", "u", "r", "r", "e", "d", " ", "w", "h", "i",
      "l", "e", " ", "p", "r", "o", "c", "e", "s", "s", "i", "n", "g", " ",
      "y", "o", "u", "r", " ", "r", "e", "q", "u", "e", "s", "t", ".">>

RemoveAt(s, i) == SubSeq(s, 1, i - 1) \o SubSeq(s, i + 1, Len(s))

\* onChange={(e) => setQuery(e.target.value)}
setQuery(value) ==
    /\ inputQuery' = value
    /\ uiEvent' = "change"
    /\ started' = FALSE
    /\ UNCHANGED <<chatHistory, loading, pending>>

\* a submit handler that returns early on a blank query only
handleQuery_ignoresLoading ==
    /\ uiEvent' = "submit"
    /\ IF trim(inputQuery) = <<>>
       THEN /\ started' = FALSE
            /\ UNCHANGED <<inputQuery, chatHistory, loading, pending>>
       ELSE LET nextHistory == chatHistory \o
                                  << <<"human", inputQuery>>, <<"ai", <<>>, <<>>>> >>
            IN  /\ started' = TRUE
                /\ loading' = TRUE
                /\ chatHistory' = nextHistory
                /\ inputQuery' = <<>>
                /\ pending' = Append(pending, [input |-> inputQuery,
                                               chat_history |-> nextHistory])

\* handleQuery up to "await streamAgent(...)": the early return on a blank
\* query or on loading, else setLoading(true), the two new entries of
\* chatHistory, setQuery("") and the call of streamAgent
handleQuery ==
    /\ uiEvent' = "submit"
    /\ IF trim(inputQuery) = <<>> \/ loading
       THEN /\ started' = FALSE
            /\ UNCHANGED <<inputQuery, chatHistory, loading, pending>>
       ELSE LET nextHistory == chatHistory \o
                                  << <<"human", inputQuery>>, <<"ai", <<>>, <<>>>> >>
            IN  /\ started' = TRUE
                /\ loading' = TRUE
                /\ chatHistory' = nextHistory
                /\ inputQuery' = <<>>
                /\ pending' = Append(pending, [input |-> inputQuery,
                                               chat_history |-> nextHistory])

\* the continuation of handleQuery when call i of streamAgent returns data:
\* the last entry of chatHistory gets the answer and the sources, and the
\* finally block runs setLoading(false)
streamAgentResolves(i, data) ==
    /\ uiEvent' = "resolved"
    /\ started' = FALSE
    /\ chatHistory' = [chatHistory EXCEPT ![Len(chatHistory)] =
                          <<@[1], data.response, data.sources>>]
    /\ loading' = FALSE
    /\ pending' = RemoveAt(pending, i)
    /\ UNCHANGED inputQuery

\* the continuation when call i of streamAgent throws: the catch block writes
\* the apology into the last entry, and the finally block runs
\* setLoading(false)
streamAgentRejects(i) ==
    /\ uiEvent' = "rejected"
    /\ started' = FALSE
    /\ chatHistory' = [chatHistory EXCEPT ![Len(chatHistory)][2] = ErrorText]
    /\ loading' = FALSE
    /\ pending' = RemoveAt(pending, i)
    /\ UNCHANGED inputQuery

Change ==
    /\ \E v \in Typed : setQuery(v)
    /\ UNCHANGED indexVars

\* a submit event, at any time; one that would open a question beyond
\* MaxTurns is left out
Submit ==
    /\ \/ Len(chatHistory) < 2 * MaxTurns
       \/ loading
       \/ trim(inputQuery) = <<>>
    /\ handleQuery
    /\ UNCHANGED indexVars

Resolve ==
    /\ \E i \in DOMAIN pending, data \in AgentReplies : streamAgentResolves(i, data)
    /\ UNCHANGED indexVars

Reject ==
    /\ \E i \in DOMAIN pending : streamAgentRejects(i)
    /\ UNCHANGED indexVars

AppNext == Change \/ Submit \/ Resolve \/ Reject

AppSpec == Init /\ [][AppNext]_vars

-----------------------------------------------------------------------------
(* Properties *)

SearchOps == {"search", "tool"}

HasMalformed(documents) == \E i \in DOMAIN documents : ~documents[i].isString

\* the number of stored records whose tokens contain t
ContainingCount(t) ==
    Cardinality({i \in DOMAIN storedDocs :
                    \E j \in DOMAIN storedDocs[i].tokens : storedDocs[i].tokens[j] = t})

RECURSIVE TotalTokens(_)
TotalTokens(n) == IF n = 0 THEN 0 ELSE Len(storedDocs[n].tokens) + TotalTokens(n - 1)

\* C1: in every reachable state the Index Statistics agree with the Corpus
\* Store: documentFrequency of every token is the number of stored records
\* containing it, and averageDocumentLength is the mean token count of the
\* stored records (0 for an empty store).
C1_StatsConsistent ==
    /\ \A t \in AllTokens(storedDocs) \cup DOMAIN dfMap : DfGet(t) = ContainingCount(t)
    /\ IF storedDocs = <<>> THEN avgDocLength.num = 0
       ELSE avgDocLength.num * Len(storedDocs)
                = TotalTokens(Len(storedDocs)) * avgDocLength.den

\* C2: an append whose batch holds a non-string or null entry fails and
\* leaves the store as it was before the call.
C2_AppendAllOrNothing ==
    [][(lastOp' = "add" /\ HasMalformed(lastDocs'))
          => (outcome' = "threw" /\ storedDocs' = storedDocs)]_vars

\* C3: an initialize whose batch holds a non-string or null entry returns
\* false and leaves the store and the statistics as they were.
C3_InitializeAllOrNothing ==
    [][(lastOp' = "initialize" /\ HasMalformed(lastDocs'))
          => /\ outcome' = "false"
             /\ storedDocs' = storedDocs
             /\ dfMap' = dfMap
             /\ avgDocLength' = avgDocLength]_vars

\* a failed initialize of a batch whose first entry is well formed, on a
\* store that holds records
C3_Witness ==
    /\ lastOp = "initialize"
    /\ outcome = "false"
    /\ Len(lastDocs) >= 2
    /\ lastDocs[1].isString
    /\ storedDocs # <<>>

\* C4 as stated: a search gives the scores and results of the query with its
\* duplicate tokens removed.
C4_DuplicatesIgnored ==
    (lastOp \in SearchOps /\ storedDocs # <<>> /\ tokenize(lastQuery) # <<>>)
        => result = MapOut(SelectTop(Dedup(tokenize(lastQuery)), lastK))

RECURSIVE SumOver(_, _, _)
SumOver(doc, queryTokens, terms) ==
    IF terms = {} THEN 0
    ELSE LET t == CHOOSE x \in terms : TRUE
         IN  Count(queryTokens, t) * TermScore(doc, t)
               + SumOver(doc, queryTokens, terms \ {t})

\* C4 as amended: every occurrence of a query token adds its term, so the
\* score of a returned record is the sum over the distinct query tokens of
\* (occurrences of the token in the query) * (the token's term); the records
\* with a positive score are those of the query with duplicates removed.
C4_OccurrencesWeigh ==
    lastOp \in SearchOps =>
        LET qts == tokenize(lastQuery)
        IN  /\ \A i \in DOMAIN result :
                  result[i].score = SumOver(storedDocs[picked[i]], qts, Range(qts))
            /\ \A d \in DOMAIN storedDocs :
                  (ScoreDoc(storedDocs[d], qts) > 0)
                     <=> (ScoreDocSum(storedDocs[d], Dedup(qts)) > 0)

\* a search for "A a" that returned a record in which a occurs
C4_Witness ==
    /\ lastOp = "search"
    /\ lastQuery = Q_Aa
    /\ result # <<>>

\* no character of the query is in [a-z0-9] once lower-cased
NoWordChar(query) ==
    \A i \in DOMAIN toLowerCase(query) : ~IsWordChar(toLowerCase(query)[i])

\* C5: a search of an empty corpus, or with a query that has no token,
\* returns the empty sequence and raises no error.
C5_EmptySearch ==
    (lastOp \in SearchOps /\ (storedDocs = <<>> \/ NoWordChar(lastQuery)))
        => (result = <<>> /\ outcome = "ok")

\* a search with a token-less query of a store that holds records
C5_Witness ==
    /\ lastOp = "search"
    /\ storedDocs # <<>>
    /\ NoWordChar(lastQuery)
    /\ result = <<>>

\* the score the latest search gave to the record at position d
ScoreAt(d) == ScoreDoc(storedDocs[d], tokenize(lastQuery))

\* C6: the entries a search returns are in order of non-increasing score.
C6_SortedByScore ==
    lastOp \in SearchOps =>
        \A i \in DOMAIN result :
            i < Len(result) => result[i].score >= result[i + 1].score

\* a search whose first entry was inserted after its second and scores higher
C6_Witness ==
    /\ lastOp = "search"
    /\ Len(result) >= 2
    /\ picked[1] > picked[2]
    /\ result[1].score > result[2].score

\* C7: every entry a search returns has a score > 0.
C7_PositiveScores ==
    lastOp \in SearchOps => \A i \in DOMAIN result : result[i].score > 0

\* a search that returned an entry and left out a record of score 0 although
\* k allowed one more
C7_Witness ==
    /\ lastOp = "search"
    /\ result # <<>>
    /\ Len(result) < lastK[1]
    /\ \E d \in DOMAIN storedDocs : ScoreAt(d) = 0

\* C8: a search returns at most k entries, 5 when k is omitted, and no stored
\* record twice.
C8_AtMostK ==
    /\ lastOp = "search" => Len(result) <= lastK[1]
    /\ lastOp = "tool" => (lastK = <<>> /\ Len(result) <= 5)
    /\ lastOp \in SearchOps =>
          \A i, j \in DOMAIN picked : picked[i] = picked[j] => i = j

\* a search with k omitted that returned 5 of 6 positively scored records
C8_Witness ==
    /\ lastOp = "tool"
    /\ Len(result) = 5
    /\ Cardinality({d \in DOMAIN storedDocs : ScoreAt(d) > 0}) >= 6

\* C9: no record left out of the result scores strictly higher than a
\* returned one, and a result of fewer than k entries holds every record of
\* score > 0.
C9_TopK ==
    lastOp \in SearchOps =>
        LET out == DOMAIN storedDocs \ Range(picked)
            k   == IF lastOp = "tool" THEN 5 ELSE lastK[1]
        IN  /\ \A d \in out, i \in DOMAIN result : ScoreAt(d) <= result[i].score
            /\ Len(result) < k => \A d \in out : ScoreAt(d) <= 0

\* a search that filled its k entries and left out a record of a positive
\* score below the last entry's, inserted before the first entry's record
C9_Witness ==
    /\ lastOp = "search"
    /\ Len(result) = lastK[1]
    /\ \E d \in DOMAIN storedDocs \ Range(picked) :
          /\ ScoreAt(d) > 0
          /\ ScoreAt(d) < result[Len(result)].score
          /\ d < picked[1]

\* C10: of two returned entries of equal score the one inserted earlier comes
\* first, and of a returned entry and a record left out with the same score
\* the returned one was inserted earlier.
C10_TiesByInsertion ==
    lastOp \in SearchOps =>
        /\ \A i, j \in DOMAIN result :
              (i < j /\ result[i].score = result[j].score) => picked[i] < picked[j]
        /\ \A d \in DOMAIN storedDocs \ Range(picked), i \in DOMAIN result :
              ScoreAt(d) = result[i].score => picked[i] < d

\* a search whose two entries tie and whose k cut off a third record of the
\* same score
C10_Witness ==
    /\ lastOp = "search"
    /\ Len(result) = 2
    /\ result[1].score = result[2].score
    /\ storedDocs[picked[1]].pageContent # storedDocs[picked[2]].pageContent
    /\ \E d \in DOMAIN storedDocs \ Range(picked) : ScoreAt(d) = result[2].score

\* the statistics are those of the store
StatsMatchStore ==
    /\ DOMAIN dfMap = {t \in AllTokens(storedDocs) : ContainingCount(t) > 0}
    /\ \A t \in DOMAIN dfMap : dfMap[t] = ContainingCount(t)
    /\ IF storedDocs = <<>> THEN avgDocLength.num = 0
       ELSE avgDocLength.num * Len(storedDocs)
                = TotalTokens(Len(storedDocs)) * avgDocLength.den

\* C11: after a successful initialize(D) the store holds one record per
\* element of D, in the order of D, and nothing else, and the statistics are
\* those of that store: the state every later search reads is a function of D
\* alone, so initialize(D) twice leaves what initialize(D) once leaves.
C11_InitializeReplaces ==
    (lastOp = "initialize" /\ outcome = "ok") =>
        /\ Len(storedDocs) = Len(lastDocs)
        /\ \A i \in DOMAIN storedDocs :
              /\ storedDocs[i].pageContent = lastDocs[i].chars
              /\ storedDocs[i].tokens = tokenize(lastDocs[i].chars)
              /\ storedDocs[i].termFreq = TermFreq(storedDocs[i].tokens)
        /\ StatsMatchStore

\* a successful initialize of two texts, one of which has tokens
C11_Witness ==
    /\ lastOp = "initialize"
    /\ outcome = "ok"
    /\ Len(lastDocs) = 2
    /\ storedDocs[2].tokens # <<>>

\* C12: a successful append leaves the records already stored where they
\* were, puts the new records after them in input order, and grows the store
\* by the number of texts.
C12_AppendExtends ==
    [][(lastOp' = "add" /\ outcome' = "ok") =>
          /\ Len(storedDocs') = Len(storedDocs) + Len(lastDocs')
          /\ SubSeq(storedDocs', 1, Len(storedDocs)) = storedDocs
          /\ \A i \in DOMAIN lastDocs' :
                LET r == storedDocs'[Len(storedDocs) + i]
                IN  /\ r.pageContent = lastDocs'[i].chars
                    /\ r.tokens = tokenize(lastDocs'[i].chars)]_vars

\* a successful append of two texts to a store that held a record
C12_Witness ==
    /\ lastOp = "add"
    /\ outcome = "ok"
    /\ Len(lastDocs) = 2
    /\ Len(storedDocs) = 3

\* C13: in every reachable state, for every record and every token the
\* record holds (the terms a search can score), the divisor avgDocLength || 1
\* is not 0, the BM25 denominator tf + k1 * (1 - b + b * dl / avg) is > 0,
\* and in the idf argument 1 + (N - df + 0.5) / (df + 0.5) the divisor and
\* the argument are > 0.
C13_NoDivisionByZero ==
    \A d \in DOMAIN storedDocs : \A t \in DOMAIN storedDocs[d].termFreq :
        LET doc == storedDocs[d]
            tf  == TfGet(doc, t)
            df  == DfGet(t)
            N   == Len(storedDocs)
        IN  /\ tf > 0
            /\ AvgOr1.num > 0
            /\ AvgOr1.den > 0
            /\ DenomScaled(tf, DocLen(doc)) > 0
            /\ 2 * df + 1 > 0
            /\ (2 * df + 1) + (2 * (N - df) + 1) > 0
            /\ 2 * N + 2 \in DOMAIN LnTable
            /\ 2 * df + 1 \in DOMAIN LnTable

\* a search that returned a record while avgDocLength was 0: the store was
\* left by a failed append to a corpus without tokens
C13_Witness ==
    /\ lastOp = "search"
    /\ result # <<>>
    /\ avgDocLength.num = 0
    /\ \E d \in DOMAIN storedDocs : storedDocs[d].tokens = <<>>

\* C14: a search of a populated corpus with a query none of whose tokens
\* occurs in a stored record returns the empty sequence.
C14_AbsentTokens ==
    (/\ lastOp \in SearchOps
     /\ storedDocs # <<>>
     /\ \A t \in Range(tokenize(lastQuery)) :
           \A d \in DOMAIN storedDocs : t \notin Range(storedDocs[d].tokens))
        => result = <<>>

\* a search for "z" of a store with a record that has tokens
C14_Witness ==
    /\ lastOp = "search"
    /\ lastQuery = Q_z
    /\ \E d \in DOMAIN storedDocs : storedDocs[d].tokens # <<>>
    /\ result = <<>>

\* C15: a text without a token is stored by initialize and by append like any
\* other (the batch's records are the last records of the store, and the
\* average is taken over all records), and no search returns its record.
C15_EmptyTextStoredNotFound ==
    /\ (lastOp \in {"initialize", "add"} /\ outcome = "ok") =>
          LET base == Len(storedDocs) - Len(lastDocs)
          IN  /\ base >= 0
              /\ \A i \in DOMAIN lastDocs :
                    /\ storedDocs[base + i].pageContent = lastDocs[i].chars
                    /\ NoWordChar(lastDocs[i].chars) => storedDocs[base + i].tokens = <<>>
              /\ storedDocs # <<>> =>
                    /\ avgDocLength.den > 0
                    /\ avgDocLength.num * Len(storedDocs)
                          = TotalTokens(Len(storedDocs)) * avgDocLength.den
    /\ lastOp \in SearchOps =>
          \A i \in DOMAIN picked : ~NoWordChar(storedDocs[picked[i]].pageContent)

\* a search with the default k that returned a record and not the stored
\* record of "!", which the average counts
C15_Witness ==
    /\ lastOp = "tool"
    /\ result # <<>>
    /\ \E d \in DOMAIN storedDocs \ Range(picked) : storedDocs[d].pageContent = T_bang
    /\ avgDocLength.den = Len(storedDocs)
    /\ avgDocLength.num = TotalTokens(Len(storedDocs))

\* C16: for tokens t1, t2 with df(t1) < df(t2) and records d1, d2 of equal
\* length in which t1 and t2 occur equally often, the score of d1 for the
\* query t1 is >= the score of d2 for the query t2.
C16_MonotonicRarity ==
    \A d1, d2 \in DOMAIN storedDocs :
        \A t1 \in DOMAIN storedDocs[d1].termFreq, t2 \in DOMAIN storedDocs[d2].termFreq :
            (/\ DfGet(t1) < DfGet(t2)
             /\ storedDocs[d1].termFreq[t1] = storedDocs[d2].termFreq[t2]
             /\ Len(storedDocs[d1].tokens) = Len(storedDocs[d2].tokens))
                => ScoreDoc(storedDocs[d1], <<t1>>) >= ScoreDoc(storedDocs[d2], <<t2>>)

\* two records of equal length, one holding a rarer token as often as the
\* other holds a more frequent one, and scoring strictly higher for it
C16_Witness ==
    \E d1, d2 \in DOMAIN storedDocs :
        \E t1 \in DOMAIN storedDocs[d1].termFreq, t2 \in DOMAIN storedDocs[d2].termFreq :
            /\ 0 < DfGet(t1)
            /\ DfGet(t1) < DfGet(t2)
            /\ storedDocs[d1].termFreq[t1] = storedDocs[d2].termFreq[t2]
            /\ Len(storedDocs[d1].tokens) = Len(storedDocs[d2].tokens)
            /\ ScoreDoc(storedDocs[d1], <<t1>>) > ScoreDoc(storedDocs[d2], <<t2>>)

\* C17: the search that follows a successful initialize or append reads the
\* new store with statistics rebuilt from it, and, when k is at least the
\* corpus size, returns every record of the call that shares a token with the
\* query.
C17_MutationsObserved ==
    [][(lastOp \in {"initialize", "add"} /\ outcome = "ok" /\ lastOp' \in SearchOps) =>
          /\ StatsMatchStore
          /\ UNCHANGED <<storedDocs, dfMap, avgDocLength>>
          /\ LET base == Len(storedDocs) - Len(lastDocs)
                 k    == IF lastOp' = "tool" THEN 5 ELSE lastK'[1]
                 qts  == Range(tokenize(lastQuery'))
             IN  k >= Len(storedDocs) =>
                    \A i \in DOMAIN lastDocs :
                        (qts \cap Range(storedDocs[base + i].tokens) # {})
                            => (base + i) \in Range(picked')]_vars

\* a search with the default k, on statistics that match the store, that
\* returned the last of several stored records
C17_Witness ==
    /\ lastOp = "tool"
    /\ StatsMatchStore
    /\ Len(storedDocs) >= 2
    /\ Len(storedDocs) \in Range(picked)

\* C18: whatever calls ran before it, a search reads a store and statistics
\* of the same revision: dfMap and avgDocLength are the ones rebuildIndex
\* computes from the storedDocs the search scores.
C18_SearchSeesOneRevision ==
    lastOp \in SearchOps =>
        /\ dfMap = RebuiltDf(storedDocs)
        /\ avgDocLength = RebuiltAvg(storedDocs)

RECURSIVE SumCounts(_, _)
SumCounts(f, keys) ==
    IF keys = {} THEN 0
    ELSE LET t == CHOOSE x \in keys : TRUE
         IN  f[t] + SumCounts(f, keys \ {t})

\* C19: in every stored record the keys of termFreq are the distinct elements
\* of tokens, every count is >= 1, and the counts add up to tokens.length.
C19_RecordInvariant ==
    \A d \in DOMAIN storedDocs :
        LET doc == storedDocs[d]
        IN  /\ DOMAIN doc.termFreq = {doc.tokens[j] : j \in DOMAIN doc.tokens}
            /\ \A t \in DOMAIN doc.termFreq : doc.termFreq[t] >= 1
            /\ SumCounts(doc.termFreq, DOMAIN doc.termFreq) = Len(doc.tokens)

\* after an append, a store whose first and last records hold a token twice
C19_Witness ==
    /\ lastOp = "add"
    /\ outcome = "ok"
    /\ lastDocs # <<>>
    /\ Len(storedDocs) > Len(lastDocs)
    /\ \E t \in DOMAIN storedDocs[1].termFreq : storedDocs[1].termFreq[t] = 2
    /\ \E t \in DOMAIN storedDocs[Len(storedDocs)].termFreq :
          storedDocs[Len(storedDocs)].termFreq[t] = 2

\* C20: the tokens of a text are, in order, the maximal runs of characters of
\* [a-z0-9] in the lower-cased text: every token is non-empty and made of
\* characters of [a-z0-9] only, every other character of the lower-cased text
\* separates, and a text without a character of [a-z0-9] has no token.
C20_TokensAreMaximalRuns ==
    \A d \in DOMAIN storedDocs :
        LET low    == toLowerCase(storedDocs[d].pageContent)
            toks   == storedDocs[d].tokens
            word(i) == low[i] \in WordChars
            starts == {i \in DOMAIN low : word(i) /\ (i = 1 \/ ~word(i - 1))}
            endOf(i) == CHOOSE j \in i..Len(low) :
                            /\ \A m \in i..j : word(m)
                            /\ j = Len(low) \/ ~word(j + 1)
            rank(i) == Cardinality({s \in starts : s <= i})
        IN  /\ Len(toks) = Cardinality(starts)
            /\ \A i \in starts : toks[rank(i)] = SubSeq(low, i, endOf(i))
            /\ \A r \in DOMAIN toks :
                  /\ toks[r] # <<>>
                  /\ \A c \in Range(toks[r]) : c \in WordChars
            /\ (\A i \in DOMAIN low : ~word(i)) => toks = <<>>

\* the record of a text of an upper-case letter between two characters
\* outside ASCII, one of which lower-cases to an ASCII letter
C20_Witness ==
    /\ lastOp = "initialize"
    /\ Len(storedDocs) = 1
    /\ storedDocs[1].pageContent = <<"I_DOT", "B", "E_ACUTE">>
    /\ storedDocs[1].tokens = << <<"i">>, <<"b">> >>


\* the stored records that hold at least one token of the latest query
Sharing ==
    {d \in DOMAIN storedDocs :
        Range(tokenize(lastQuery)) \cap Range(storedDocs[d].tokens) # {}}

\* C21: every stored record that shares a token with the query has a score
\* above zero, also when the token is in every record, and a search whose k is
\* at least the corpus size returns exactly the records that share a token
\* with the query.
C21_SharingRecordsReturned ==
    lastOp \in SearchOps =>
        /\ \A d \in Sharing : ScoreAt(d) > 0
        /\ KOf(lastK) >= Len(storedDocs) => Range(picked) = Sharing

\* a search for a token that every one of several stored records holds,
\* which returned all of them
C21_Witness ==
    /\ lastOp \in SearchOps
    /\ Len(storedDocs) >= 2
    /\ \E t \in Range(tokenize(lastQuery)) :
          /\ DfGet(t) = Len(storedDocs)
          /\ \A d \in DOMAIN storedDocs : t \in Range(storedDocs[d].tokens)
    /\ KOf(lastK) >= Len(storedDocs)
    /\ Range(picked) = DOMAIN storedDocs

\* C22: a search is read-only.  Whatever the query and k, the step of a search
\* leaves storedDocs (content and order), dfMap and avgDocLength as they were,
\* and a search that follows a search with the same query and k returns the
\* same sequence.
C22_SearchReadOnly ==
    [][lastOp' \in SearchOps =>
          /\ UNCHANGED <<storedDocs, dfMap, avgDocLength>>
          /\ (lastOp = lastOp' /\ lastQuery = lastQuery' /\ lastK = lastK')
                => (result' = result /\ picked' = picked /\ toolOut' = toolOut)]_vars

\* a search with an explicit k that returned a later record ahead of an
\* earlier one, from a store it was given in the other order
C22_Witness ==
    /\ lastOp = "search"
    /\ Len(result) >= 2
    /\ picked[1] > picked[2]
    /\ storedDocs[picked[1]].pageContent # storedDocs[picked[2]].pageContent

\* C23: a submit event handled while loading is true, or with a blank query,
\* calls streamAgent no further time and leaves chatHistory as it was; a call
\* of streamAgent is awaited only while loading is true, and never more than
\* one at a time.
C23_OneRequestInFlight ==
    /\ [](Len(pending) <= 1 /\ (pending # <<>> => loading))
    /\ [][(uiEvent' = "submit" /\ (loading \/ trim(inputQuery) = <<>>)) =>
            /\ ~started'
            /\ pending' = pending
            /\ chatHistory' = chatHistory]_vars

\* a submit of a non-blank query, typed while the answer to the question
\* before it was awaited, that was ignored
C23_Witness ==
    /\ uiEvent = "submit"
    /\ ~started
    /\ loading
    /\ Len(pending) = 1
    /\ trim(inputQuery) # <<>>
    /\ chatHistory[Len(chatHistory)] = <<"ai", <<>>, <<>>>>
=============================================================================
